---- MODULE Spec2Model ----
(***************************************************************************)
(* SwapQuoter.quoteCallParameters (src/src/quoter.ts): the builder of the  *)
(* calldata for a Uniswap V3 quoter call.  One call is modelled statement  *)
(* by statement (pc), with the calls it makes to the path encoder and to   *)
(* the ABI encoder recorded in the order they happen.                      *)
(*                                                                         *)
(* JavaScript values are written as follows: a string is a TLA+ string, an *)
(* object is the sequence of its <<key, value>> pairs in insertion order   *)
(* (the order Object.values reads them in), an optional property is a key  *)
(* that is or is not in the DOMAIN of the options record, and the members  *)
(* of the FeeAmount enumeration are written as their decimal text.         *)
(***************************************************************************)
EXTENDS FiniteSets, Integers, Sequences, TLC

VARIABLES
    route,          \* argument: the swap route (pools, tokenPath)
    amount,         \* argument: amount.quotient
    tradeType,      \* argument: TradeType
    options,        \* argument: QuoteOptions
    INTERFACE,      \* static SwapQuoter.INTERFACE
    pc,             \* the statement the call is at
    singleHop,      \* local, line 65
    quoteAmount,    \* local, line 66
    swapInterface,  \* local, line 68
    quoteV2Params,  \* local, line 71
    path,           \* local, line 94
    calldata,       \* local, line 67
    calls,          \* the collaborators invoked by this call, in order
    outcome,        \* how the call ended: returned a result, or threw
    entry,          \* the arguments and statics as they were when the call began
    first,          \* the first call that completed: its arguments and outcome
    abiRejects      \* the interfaces whose single-hop signature refuses the arguments

vars == <<route, amount, tradeType, options, INTERFACE, pc, singleHop, quoteAmount,
          swapInterface, quoteV2Params, path, calldata, calls, outcome, entry, first,
          abiRejects>>

(***************************************************************************)
(* Bounds and input domains                                                *)
(***************************************************************************)
MaxPools == 2

EXACT_INPUT == "EXACT_INPUT"
EXACT_OUTPUT == "EXACT_OUTPUT"
TradeTypes == {EXACT_INPUT, EXACT_OUTPUT}

FeeList == <<"500", "3000">>
TokenList == <<"0xAA", "0xBB", "0xCC", "0xDD", "0xEE">>

QuoterV1 == "IQuoter.abi"
QuoterV2 == "IQuoterV2.abi"
InterfaceNames == {QuoterV1, QuoterV2}

Amounts == {10, 4096}
PriceLimits == {0, 300}

\* A route of n pools: tokenPath has n + 1 tokens, pool i carries a fee tier.
RouteOf(n) ==
    [pools |-> [i \in 1..n |-> [fee |-> FeeList[((i - 1) % Len(FeeList)) + 1]]],
     tokenPath |-> [i \in 1..(n + 1) |-> [address |-> TokenList[i]]]]

Routes == {RouteOf(n) : n \in 1..MaxPools}

Restrict(f, K) == [k \in K |-> f[k]]

\* QuoteOptions: both properties are optional.
QuoteOptions ==
    {Restrict([sqrtPriceLimitX96 |-> p, useQuoterV2 |-> u], K) :
        p \in PriceLimits, u \in BOOLEAN,
        K \in SUBSET {"sqrtPriceLimitX96", "useQuoterV2"}}

(***************************************************************************)
(* Collaborators (./utils and the ABI encoder)                             *)
(***************************************************************************)
HexDigits == <<"0", "1", "2", "3", "4", "5", "6", "7", "8", "9",
               "a", "b", "c", "d", "e", "f">>

RECURSIVE hexOf(_)
hexOf(n) == IF n < 16 THEN HexDigits[n + 1]
            ELSE hexOf(n \div 16) \o HexDigits[(n % 16) + 1]

\* toHex: the lowercase hexadecimal text of n, prefixed with 0x.
toHex(n) == "0x" \o hexOf(n)

RECURSIVE forwardPath(_, _)
forwardPath(r, i) ==
    IF i > Len(r.pools) THEN r.tokenPath[i].address
    ELSE r.tokenPath[i].address \o r.pools[i].fee \o forwardPath(r, i + 1)

RECURSIVE reversePath(_, _)
reversePath(r, i) ==
    IF i = 1 THEN r.tokenPath[1].address
    ELSE r.tokenPath[i].address \o r.pools[i - 1].fee \o reversePath(r, i - 1)

\* encodeRouteToPath: token, fee, token, ... packed; in reverse hop order for exact output.
encodeRouteToPath(r, exactOutput) ==
    IF exactOutput THEN reversePath(r, Len(r.tokenPath)) ELSE forwardPath(r, 1)

\* The values handed to the ABI encoder: strings, or one object.
Str(s) == [type |-> "string", str |-> s, obj |-> <<>>]
Obj(o) == [type |-> "object", str |-> "", obj |-> o]

RECURSIVE renderPairs(_, _)
renderPairs(o, i) ==
    IF i > Len(o) THEN ""
    ELSE o[i][1] \o ":" \o o[i][2] \o ";" \o renderPairs(o, i + 1)

renderValue(v) == IF v.type = "string" THEN v.str ELSE "{" \o renderPairs(v.obj, 1) \o "}"

RECURSIVE renderArgs(_, _)
renderArgs(args, i) ==
    IF i > Len(args) THEN ""
    ELSE renderValue(args[i]) \o "," \o renderArgs(args, i + 1)

\* Interface.encodeFunctionData: the selector of fn in iface followed by the arguments.
encodeFunctionData(iface, fn, args) == iface \o "#" \o fn \o "(" \o renderArgs(args, 1) \o ")"

(***************************************************************************)
(* quoteCallParameters, expression by expression                          *)
(***************************************************************************)
Has(o, k) == k \in DOMAIN o

\* options.useQuoterV2 read as a condition: absent (undefined) is falsy.
UseV2(opts) == Has(opts, "useQuoterV2") /\ opts.useQuoterV2

\* line 65
IsSingleHop(r) == Len(r.pools) = 1

\* line 68
SelectInterface(opts, staticInterface) ==
    IF UseV2(opts) THEN QuoterV2 ELSE staticInterface

\* Variant: the price limit is never read (the record always carries the default).
PriceLimitHexDefaultOnly(opts) == toHex(0)

\* line 74: toHex(options?.sqrtPriceLimitX96 ?? 0)
PriceLimitHex(opts) ==
    toHex(IF Has(opts, "sqrtPriceLimitX96") THEN opts.sqrtPriceLimitX96 ELSE 0)

\* Variant: the keys written in the order of the contract's parameters.
InitialParamsContractOrder(r, qa, opts) ==
    << <<"tokenIn", r.tokenPath[1].address>>,
       <<"tokenOut", r.tokenPath[2].address>>,
       <<"fee", r.pools[1].fee>>,
       <<"amount", qa>>,
       <<"sqrtPriceLimitX96", toHex(IF Has(opts, "sqrtPriceLimitX96")
                                    THEN opts.sqrtPriceLimitX96 ELSE 0)>> >>

\* lines 71-77: the object literal, its keys in the order they are written
InitialParams(r, qa, opts) ==
    << <<"amount", qa>>,
       <<"fee", r.pools[1].fee>>,
       <<"sqrtPriceLimitX96", PriceLimitHex(opts)>>,
       <<"tokenIn", r.tokenPath[1].address>>,
       <<"tokenOut", r.tokenPath[2].address>> >>

HasKey(o, k) == \E i \in 1..Len(o) : o[i][1] = k

\* o.k = v: an existing key keeps its place, a new key goes last
SetProperty(o, k, v) ==
    IF HasKey(o, k) THEN [i \in 1..Len(o) |-> IF o[i][1] = k THEN <<k, v>> ELSE o[i]]
    ELSE Append(o, <<k, v>>)

\* delete o.k
DeleteProperty(o, k) == SelectSeq(o, LAMBDA p : p[1] # k)

\* Variant: the rename does not look at the interface version.
RenameAppliesAnyInterface(opts, tt) == tt = EXACT_INPUT

\* line 79
RenameApplies(opts, tt) == UseV2(opts) /\ tt = EXACT_INPUT

\* Variant: line 81 (the delete) is missing.
RenameAmountNoDelete(params, qa) == SetProperty(params, "amountIn", qa)

\* lines 80-81
RenameAmount(params, qa) == DeleteProperty(SetProperty(params, "amountIn", qa), "amount")

\* Variant: the two names exchanged.
SingleFunctionNameSwapped(tt) ==
    IF tt = EXACT_INPUT THEN "quoteExactOutputSingle" ELSE "quoteExactInputSingle"

\* lines 84-85
SingleFunctionName(tt) ==
    IF tt = EXACT_INPUT THEN "quoteExactInputSingle" ELSE "quoteExactOutputSingle"

\* line 87: Object.values
ObjectValues(o) == [i \in 1..Len(o) |-> Str(o[i][2])]

\* line 90
SingleArgs(opts, params) == IF UseV2(opts) THEN <<Obj(params)>> ELSE ObjectValues(params)

\* Variant: the limit tested for truthiness, so that a limit of 0 passes.
PriceLimitAllowedFalsy(opts) == ~Has(opts, "sqrtPriceLimitX96") \/ opts.sqrtPriceLimitX96 = 0

\* line 93: the condition of invariant(...)
PriceLimitAllowed(opts) == ~Has(opts, "sqrtPriceLimitX96")

\* Variant: the path reversed for exact input instead.
ReverseFlagInverted(tt) == tt = EXACT_INPUT

\* line 94: the second argument of encodeRouteToPath
ReverseFlag(tt) == tt = EXACT_OUTPUT

\* line 95
MultiFunctionName(tt) == IF tt = EXACT_INPUT THEN "quoteExactInput" ELSE "quoteExactOutput"

\* line 96
MultiArgs(p, qa) == <<Str(p), Str(qa)>>

\* Variant: value carries the calldata.
ReturnValueCalldata(cd) == [calldata |-> cd, value |-> cd]

\* lines 98-101
ReturnValue(cd) == [calldata |-> cd, value |-> toHex(0)]

\* Variant: the invariant of line 93 placed after the path has been encoded.
NextLabelCheckAfterPath(label, single) ==
    CASE label = "enter" -> IF single THEN "build" ELSE "path"
      [] label = "build" -> "rename"
      [] label = "rename" -> "encodeSingle"
      [] label = "encodeSingle" -> "return"
      [] label = "path" -> "check"
      [] label = "check" -> "encodeMulti"
      [] label = "encodeMulti" -> "return"
      [] label = "return" -> "done"

\* The order of the statements of the body: which one follows `label`.
NextLabel(label, single) ==
    CASE label = "enter" -> IF single THEN "build" ELSE "check"
      [] label = "build" -> "rename"
      [] label = "rename" -> "encodeSingle"
      [] label = "encodeSingle" -> "return"
      [] label = "check" -> "path"
      [] label = "path" -> "encodeMulti"
      [] label = "encodeMulti" -> "return"
      [] label = "return" -> "done"

(***************************************************************************)
(* State                                                                   *)
(***************************************************************************)
Args == [route |-> route, amount |-> amount, tradeType |-> tradeType, options |-> options]

NoOutcome == [kind |-> "none", result |-> <<>>, error |-> ""]
Returned(r) == [kind |-> "returned", result |-> <<r>>, error |-> ""]
Threw(e) == [kind |-> "threw", result |-> <<>>, error |-> e]

MULTIHOP_PRICE_LIMIT == "Invariant failed: MULTIHOP_PRICE_LIMIT"
EncodingError == "EncodingError"

\* The first completed call is kept, to compare later calls with; `again` tells that a
\* later call with the same arguments has completed too.
Remember(o) ==
    IF first = <<>> THEN <<[args |-> Args, outcome |-> o, again |-> FALSE]>>
    ELSE IF first[1].args = Args THEN <<[first[1] EXCEPT !.again = TRUE]>>
    ELSE first

Init ==
    /\ route \in Routes
    /\ amount \in Amounts
    /\ tradeType \in TradeTypes
    /\ options \in QuoteOptions
    /\ INTERFACE = QuoterV1
    /\ pc = "enter"
    /\ singleHop = FALSE
    /\ quoteAmount = ""
    /\ swapInterface = ""
    /\ quoteV2Params = <<>>
    /\ path = ""
    /\ calldata = ""
    /\ calls = <<>>
    /\ outcome = NoOutcome
    /\ entry = [args |-> Args, INTERFACE |-> INTERFACE]
    /\ first = <<>>
    /\ abiRejects \in SUBSET InterfaceNames

inputs == <<route, amount, tradeType, options>>

\* Variant: the interface selected on line 68 is stored in the static INTERFACE.
EnterCachingInterface ==
    /\ pc = "enter"
    /\ singleHop' = IsSingleHop(route)
    /\ quoteAmount' = toHex(amount)
    /\ swapInterface' = SelectInterface(options, INTERFACE)
    /\ INTERFACE' = swapInterface'
    /\ pc' = NextLabel("enter", singleHop')
    /\ UNCHANGED <<inputs, quoteV2Params, path, calldata, calls, outcome,
                   entry, first, abiRejects>>

\* lines 65-68
Enter ==
    /\ pc = "enter"
    /\ singleHop' = IsSingleHop(route)
    /\ quoteAmount' = toHex(amount)
    /\ swapInterface' = SelectInterface(options, INTERFACE)
    /\ pc' = NextLabel("enter", singleHop')
    /\ UNCHANGED <<inputs, INTERFACE, quoteV2Params, path, calldata, calls, outcome,
                   entry, first, abiRejects>>

\* lines 70-77
BuildParams ==
    /\ pc = "build"
    /\ quoteV2Params' = InitialParams(route, quoteAmount, options)
    /\ pc' = NextLabel("build", singleHop)
    /\ UNCHANGED <<inputs, INTERFACE, singleHop, quoteAmount, swapInterface, path,
                   calldata, calls, outcome, entry, first, abiRejects>>

\* lines 79-82
Rename ==
    /\ pc = "rename"
    /\ quoteV2Params' = IF RenameApplies(options, tradeType)
                        THEN RenameAmount(quoteV2Params, quoteAmount)
                        ELSE quoteV2Params
    /\ pc' = NextLabel("rename", singleHop)
    /\ UNCHANGED <<inputs, INTERFACE, singleHop, quoteAmount, swapInterface, path,
                   calldata, calls, outcome, entry, first, abiRejects>>

\* lines 84-91: the encoder either returns the calldata or throws, and a throw propagates
EncodeSingle ==
    /\ pc = "encodeSingle"
    /\ LET fn == SingleFunctionName(tradeType)
           args == SingleArgs(options, quoteV2Params)
       IN /\ calls' = Append(calls, [op |-> "encodeFunctionData", iface |-> swapInterface,
                                     fn |-> fn, args |-> args])
          /\ IF swapInterface \in abiRejects
             THEN /\ outcome' = Threw(EncodingError)
                  /\ first' = Remember(outcome')
                  /\ pc' = "done"
                  /\ UNCHANGED calldata
             ELSE /\ calldata' = encodeFunctionData(swapInterface, fn, args)
                  /\ pc' = NextLabel("encodeSingle", singleHop)
                  /\ UNCHANGED <<outcome, first>>
    /\ UNCHANGED <<inputs, INTERFACE, singleHop, quoteAmount, swapInterface,
                   quoteV2Params, path, entry, abiRejects>>

\* line 93
CheckPriceLimit ==
    /\ pc = "check"
    /\ IF PriceLimitAllowed(options)
       THEN /\ pc' = NextLabel("check", singleHop)
            /\ UNCHANGED <<outcome, first>>
       ELSE /\ outcome' = Threw(MULTIHOP_PRICE_LIMIT)
            /\ first' = Remember(outcome')
            /\ pc' = "done"
    /\ UNCHANGED <<inputs, INTERFACE, singleHop, quoteAmount, swapInterface,
                   quoteV2Params, path, calldata, calls, entry, abiRejects>>

\* line 94
EncodePath ==
    /\ pc = "path"
    /\ calls' = Append(calls, [op |-> "encodeRouteToPath", route |-> route,
                               reverse |-> ReverseFlag(tradeType)])
    /\ path' = encodeRouteToPath(route, ReverseFlag(tradeType))
    /\ pc' = NextLabel("path", singleHop)
    /\ UNCHANGED <<inputs, INTERFACE, singleHop, quoteAmount, swapInterface,
                   quoteV2Params, calldata, outcome, entry, first, abiRejects>>

\* lines 95-96
EncodeMulti ==
    /\ pc = "encodeMulti"
    /\ LET fn == MultiFunctionName(tradeType)
           args == MultiArgs(path, quoteAmount)
       IN /\ calls' = Append(calls, [op |-> "encodeFunctionData", iface |-> swapInterface,
                                     fn |-> fn, args |-> args])
          /\ calldata' = encodeFunctionData(swapInterface, fn, args)
    /\ pc' = NextLabel("encodeMulti", singleHop)
    /\ UNCHANGED <<inputs, INTERFACE, singleHop, quoteAmount, swapInterface,
                   quoteV2Params, path, outcome, entry, first, abiRejects>>

\* lines 98-101
Return ==
    /\ pc = "return"
    /\ outcome' = Returned(ReturnValue(calldata))
    /\ first' = Remember(outcome')
    /\ pc' = NextLabel("return", singleHop)
    /\ UNCHANGED <<inputs, INTERFACE, singleHop, quoteAmount, swapInterface,
                   quoteV2Params, path, calldata, calls, entry, abiRejects>>

\* lines 59-64: the caller calls again, with any arguments
Call ==
    /\ pc = "done"
    /\ route' \in Routes
    /\ amount' \in Amounts
    /\ tradeType' \in TradeTypes
    /\ options' \in QuoteOptions
    /\ pc' = "enter"
    /\ singleHop' = FALSE
    /\ quoteAmount' = ""
    /\ swapInterface' = ""
    /\ quoteV2Params' = <<>>
    /\ path' = ""
    /\ calldata' = ""
    /\ calls' = <<>>
    /\ outcome' = NoOutcome
    /\ entry' = [args |-> [route |-> route', amount |-> amount', tradeType |-> tradeType',
                           options |-> options'],
                 INTERFACE |-> INTERFACE]
    /\ UNCHANGED <<INTERFACE, first, abiRejects>>

Next ==
    \/ Enter
    \/ BuildParams
    \/ Rename
    \/ EncodeSingle
    \/ CheckPriceLimit
    \/ EncodePath
    \/ EncodeMulti
    \/ Return
    \/ Call

Spec == Init /\ [][Next]_vars

(***************************************************************************)
(* Properties                                                              *)
(***************************************************************************)
MultiHop == Len(route.pools) > 1
PriceLimitSupplied == "sqrtPriceLimitX96" \in DOMAIN options
V2Requested == "useQuoterV2" \in DOMAIN options /\ options.useQuoterV2 = TRUE

AbiCalls == SelectSeq(calls, LAMBDA c : c.op = "encodeFunctionData")
PathCalls == SelectSeq(calls, LAMBDA c : c.op = "encodeRouteToPath")

Keys(o) == {o[i][1] : i \in 1..Len(o)}
ValueAt(o, k) == o[CHOOSE i \in 1..Len(o) : o[i][1] = k][2]
NoDuplicateKeys(o) == Cardinality(Keys(o)) = Len(o)

\* C1: a multi-hop call whose options carry a price limit never gets past the check of
\* line 93, and ends by throwing MULTIHOP_PRICE_LIMIT with no result, for either trade
\* type and either value of useQuoterV2.
C1_MultiHopPriceLimitThrows ==
    (MultiHop /\ PriceLimitSupplied) =>
        /\ pc \in {"enter", "check", "done"}
        /\ pc = "done" => outcome = Threw(MULTIHOP_PRICE_LIMIT)
        /\ outcome.result = <<>>

C1_Witness ==
    /\ MultiHop /\ PriceLimitSupplied /\ options.sqrtPriceLimitX96 = 0
    /\ V2Requested /\ tradeType = EXACT_OUTPUT
    /\ pc = "done" /\ outcome = Threw(MULTIHOP_PRICE_LIMIT)

\* C2: the function name given to the ABI encoder depends only on whether the route is
\* single-hop and on the trade type.
ExpectedFunctionName ==
    IF Len(route.pools) = 1
    THEN (IF tradeType = EXACT_INPUT THEN "quoteExactInputSingle" ELSE "quoteExactOutputSingle")
    ELSE (IF tradeType = EXACT_INPUT THEN "quoteExactInput" ELSE "quoteExactOutput")

C2_FunctionNameByHopAndTradeType ==
    /\ \A i \in 1..Len(AbiCalls) : AbiCalls[i].fn = ExpectedFunctionName
    /\ (outcome.kind = "returned" \/ outcome.error = EncodingError) => Len(AbiCalls) = 1

C2_Witness ==
    /\ ~MultiHop /\ V2Requested /\ PriceLimitSupplied /\ tradeType = EXACT_OUTPUT
    /\ outcome.kind = "returned"
    /\ Len(AbiCalls) = 1 /\ AbiCalls[1].fn = "quoteExactOutputSingle"

\* C3: a single-hop call against the V1 interface passes the encoder the flat list
\* (amount, fee, priceLimit, tokenIn, tokenOut).
C3_V1PositionalOrder ==
    (~MultiHop /\ ~V2Requested) =>
        \A i \in 1..Len(AbiCalls) :
            /\ AbiCalls[i].iface = QuoterV1
            /\ AbiCalls[i].args =
                  << Str(toHex(amount)),
                     Str(route.pools[1].fee),
                     Str(toHex(IF PriceLimitSupplied THEN options.sqrtPriceLimitX96 ELSE 0)),
                     Str(route.tokenPath[1].address),
                     Str(route.tokenPath[2].address) >>

C3_Witness ==
    /\ ~MultiHop /\ "useQuoterV2" \notin DOMAIN options
    /\ PriceLimitSupplied /\ options.sqrtPriceLimitX96 = 300
    /\ amount = 4096 /\ tradeType = EXACT_INPUT
    /\ outcome.kind = "returned"
    /\ Len(AbiCalls) = 1 /\ Len(AbiCalls[1].args) = 5
    /\ AbiCalls[1].args[1].str = toHex(4096) /\ AbiCalls[1].args[3].str = toHex(300)

\* C4: a multi-hop call that gets to encoding asks for the reversed path exactly when the
\* trade is exact output, and passes the encoder [path, quoteAmount].
C4_MultiHopPathAndArgs ==
    MultiHop =>
        /\ \A i \in 1..Len(PathCalls) :
              /\ PathCalls[i].route = route
              /\ PathCalls[i].reverse = (tradeType = EXACT_OUTPUT)
        /\ \A i \in 1..Len(AbiCalls) :
              /\ Len(PathCalls) = 1
              /\ AbiCalls[i].args =
                    << Str(encodeRouteToPath(route, tradeType = EXACT_OUTPUT)),
                       Str(toHex(amount)) >>
        /\ outcome.kind = "returned" => (Len(PathCalls) = 1 /\ Len(AbiCalls) = 1)

C4_Witness ==
    /\ MultiHop /\ tradeType = EXACT_OUTPUT /\ V2Requested
    /\ outcome.kind = "returned"
    /\ PathCalls[1].reverse = TRUE
    /\ AbiCalls[1].args[1].str = "0xCC30000xBB5000xAA"
    /\ AbiCalls[1].args[2].str = toHex(amount)

\* C5: a single-hop call with useQuoterV2 passes the encoder one object holding fee,
\* sqrtPriceLimitX96, tokenIn, tokenOut and one amount key: amountIn for exact input,
\* amount for exact output, its value the hex amount.
AmountKey == IF tradeType = EXACT_INPUT THEN "amountIn" ELSE "amount"

C5_V2StructuredArgument ==
    (~MultiHop /\ V2Requested) =>
        \A i \in 1..Len(AbiCalls) :
            LET args == AbiCalls[i].args IN
            /\ Len(args) = 1
            /\ args[1].type = "object"
            /\ NoDuplicateKeys(args[1].obj)
            /\ Keys(args[1].obj) =
                  {"fee", "sqrtPriceLimitX96", "tokenIn", "tokenOut", AmountKey}
            /\ ValueAt(args[1].obj, AmountKey) = toHex(amount)

C5_Witness ==
    /\ ~MultiHop /\ V2Requested /\ tradeType = EXACT_INPUT /\ amount = 10
    /\ outcome.kind = "returned"
    /\ Len(AbiCalls) = 1
    /\ "amountIn" \in Keys(AbiCalls[1].args[1].obj)
    /\ "amount" \notin Keys(AbiCalls[1].args[1].obj)
    /\ ValueAt(AbiCalls[1].args[1].obj, "amountIn") = toHex(10)

\* C6: when MULTIHOP_PRICE_LIMIT is thrown, neither the path encoder nor
\* encodeFunctionData has been called, and nothing of a result exists.
C6_ThrowsBeforeEncoding ==
    outcome.error = MULTIHOP_PRICE_LIMIT =>
        /\ calls = <<>>
        /\ path = ""
        /\ calldata = ""
        /\ outcome.result = <<>>

C6_Witness ==
    /\ outcome.error = MULTIHOP_PRICE_LIMIT
    /\ Len(route.pools) = 2 /\ PriceLimitSupplied /\ options.sqrtPriceLimitX96 = 300
    /\ calls = <<>>

\* C7: a call ends either with a result whose calldata and value are both there, or with
\* an error and no result; the value of every result is toHex(0).
C7_CompleteResultOrError ==
    /\ pc # "done" => outcome = NoOutcome
    /\ pc = "done" =>
          \/ /\ outcome.kind = "returned"
             /\ outcome.error = ""
             /\ Len(outcome.result) = 1
             /\ outcome.result[1].calldata # ""
             /\ outcome.result[1].value = toHex(0)
          \/ /\ outcome.kind = "threw"
             /\ outcome.error \in {MULTIHOP_PRICE_LIMIT, EncodingError}
             /\ outcome.result = <<>>

C7_Witness ==
    /\ pc = "done" /\ outcome.kind = "returned"
    /\ amount = 4096 /\ MultiHop
    /\ outcome.result[1].value = toHex(0)
    /\ outcome.result[1].calldata = calldata /\ calldata # ""

\* C8: a call changes neither its arguments nor the static INTERFACE, and a call with
\* the arguments of an earlier call ends as that call did, whatever was called between.
C8_DeterministicAndNoMutation ==
    /\ Args = entry.args
    /\ INTERFACE = entry.INTERFACE
    /\ INTERFACE = QuoterV1
    /\ (pc = "done" /\ first # <<>> /\ first[1].args = Args) => outcome = first[1].outcome

C8_Witness ==
    /\ pc = "done" /\ first # <<>> /\ first[1].args = Args /\ first[1].again
    /\ ~MultiHop /\ ~V2Requested
    /\ outcome.kind = "returned" /\ outcome = first[1].outcome

\* C9: on a single-hop route the record's price limit is the hex of the supplied limit,
\* or of 0 when none is supplied, and MULTIHOP_PRICE_LIMIT is never thrown.
C9_SingleHopPriceLimit ==
    ~MultiHop =>
        /\ outcome.error # MULTIHOP_PRICE_LIMIT
        /\ pc \notin {"enter", "build"} =>
              /\ "sqrtPriceLimitX96" \in Keys(quoteV2Params)
              /\ ValueAt(quoteV2Params, "sqrtPriceLimitX96") =
                    toHex(IF PriceLimitSupplied THEN options.sqrtPriceLimitX96 ELSE 0)

C9_Witness ==
    /\ ~MultiHop /\ PriceLimitSupplied /\ options.sqrtPriceLimitX96 = 300
    /\ outcome.kind = "returned"
    /\ ValueAt(quoteV2Params, "sqrtPriceLimitX96") = toHex(300)

\* C10: the record is renamed (amountIn set, amount dropped) only under useQuoterV2, so a
\* flat list given to the encoder for a single-hop call always starts with the amount.
C10_RenameOnlyUnderV2 ==
    /\ ("amountIn" \in Keys(quoteV2Params)) => V2Requested
    /\ (pc \notin {"enter", "build"} /\ ~MultiHop /\ "amount" \notin Keys(quoteV2Params))
          => V2Requested
    /\ \A i \in 1..Len(AbiCalls) :
          (~MultiHop /\ AbiCalls[i].args[1].type = "string") =>
              /\ ~V2Requested
              /\ Len(AbiCalls[i].args) = 5
              /\ AbiCalls[i].args[1].str = toHex(amount)
              /\ Keys(quoteV2Params) =
                    {"amount", "fee", "sqrtPriceLimitX96", "tokenIn", "tokenOut"}

C10_Witness ==
    /\ ~MultiHop /\ ~V2Requested /\ tradeType = EXACT_INPUT
    /\ Len(AbiCalls) = 1 /\ AbiCalls[1].iface = QuoterV1
    /\ AbiCalls[1].args[1].type = "string"
    /\ "amountIn" \notin Keys(quoteV2Params)
    /\ AbiCalls[1].args[1].str = toHex(amount)

====
